---- MODULE Spec2Model ----
(***************************************************************************)
(* Model of the fake-news detection pipeline of jqxx.py: the handler of    *)
(* the detect button of main_application and the functions it calls.       *)
(*                                                                         *)
(* A text is a finite sequence of tokens.  A token is one of the literal   *)
(* phrases the program searches for, or a single character; `p in text`    *)
(* of the program is "token p occurs in the sequence".  TLA+ strings are   *)
(* ASCII, so the Chinese literals are written in pinyin:                   *)
(*   yueqiu_baozha = 月球爆炸    taiyang_xiaoshi = 太阳消失                *)
(*   diqiu_tingzhuan = 地球停转  changsheng_bulao = 长生不老               *)
(*   chuanyue_gudai = 穿越古代   xinhuashe = 新华社                        *)
(*   renmin_ribao = 人民日报     guanfang = 官方                           *)
(*   bikan = 必看  jinji = 紧急  sukan = 速看                              *)
(*   zhenjing = 震惊  zuiniu = 最牛  100% = 100%                           *)
(*   juhao = 。 (the full stop)  " " = a whitespace character              *)
(*                                                                         *)
(* A probability is an exact fraction <<numerator, denominator>> in lowest  *)
(* terms; <<0, 0>> is the not-a-number that numpy's 0.0 / 0.0 yields.      *)
(***************************************************************************)
EXTENDS Integers, Sequences, FiniteSets

\* ------------------------------------------------------------------ bounds
\* Longest text submitted, in tokens.
MaxLen == 2
\* The classifier's probabilities are k / GridN for k in 0 .. GridN.
GridN == 5
\* The vectorizer's row is DimSlack entries shorter than, as long as, or
\* DimSlack entries longer than what fills expected_dim exactly.
DimSlack == 1

\* ------------------------------------------------------- program constants
expected_dim == 204
\* 1.7 and 0.97
BOOST == <<17, 10>>
CEILING == <<97, 100>>

absurd_phrases ==
  <<"yueqiu_baozha", "taiyang_xiaoshi", "diqiu_tingzhuan", "changsheng_bulao",
    "chuanyue_gudai">>
is_absurd_phrases ==
  <<"yueqiu_baozha", "taiyang_xiaoshi", "diqiu_tingzhuan", "changsheng_bulao">>
reliable_markers == {"xinhuashe", "renmin_ribao", "guanfang"}
authority_sources == {"xinhuashe", "renmin_ribao"}
urgent_markers == {"bikan", "jinji", "sukan"}
exaggeration_markers == {"zhenjing", "zuiniu", "100%"}

\* ------------------------------------------------------------------- texts
Range(s) == {s[i] : i \in 1..Len(s)}

\* The tokens the submitted texts are built from: the phrases of the gate, the
\* source markers, the whitespace and the full stop.
Alphabet ==
  Range(absurd_phrases) \cup reliable_markers \cup {" ", "juhao"}

Texts == UNION {[1..n -> Alphabet] : n \in 0..MaxLen}

\* phrase in text
Contains(text, phrase) == \E i \in 1..Len(text) : text[i] = phrase

ContainsAny(text, phrases) == \E p \in phrases : Contains(text, p)

RECURSIVE LStrip(_)
LStrip(text) ==
  IF text # <<>> /\ Head(text) = " " THEN LStrip(Tail(text)) ELSE text

RECURSIVE RStrip(_)
RStrip(text) ==
  IF text # <<>> /\ text[Len(text)] = " "
    THEN RStrip(SubSeq(text, 1, Len(text) - 1))
    ELSE text

\* Strip without the stripping.
Strip_Nothing(text) == text

\* str.strip()
Strip(text) == RStrip(LStrip(text))

\* ------------------------------------------------------------- fractions
RECURSIVE GCD(_, _)
GCD(a, b) == IF b = 0 THEN a ELSE GCD(b, a % b)

\* The fraction n / d in lowest terms, so that equal numbers are equal values.
Frac(n, d) ==
  IF d = 0 THEN <<IF n = 0 THEN 0 ELSE 1, 0>>
  ELSE <<n \div GCD(n, d), d \div GCD(n, d)>>
Zero == Frac(0, 1)
One == Frac(1, 1)
IsNaN(a) == a[2] = 0
FracMul(a, b) == Frac(a[1] * b[1], a[2] * b[2])
FracAdd(a, b) == Frac(a[1] * b[2] + b[1] * a[2], a[2] * b[2])
\* IEEE division of non-negative numbers; 0 / 0 is not-a-number.
FracDiv(a, b) == Frac(a[1] * b[2], a[2] * b[1])
\* Comparisons with a not-a-number are false.
FracLE(a, b) == ~IsNaN(a) /\ ~IsNaN(b) /\ a[1] * b[2] <= b[1] * a[2]
FracLT(a, b) == ~IsNaN(a) /\ ~IsNaN(b) /\ a[1] * b[2] < b[1] * a[2]
FracEq(a, b) == ~IsNaN(a) /\ ~IsNaN(b) /\ a[1] * b[2] = b[1] * a[2]
\* Python's min(a, b): b only when b < a.
FracMin(a, b) == IF FracLT(b, a) THEN b ELSE a

\* ------------------------------------------------------------ pure functions
\* len() of one token, in characters.
CharLen(tok) ==
  CASE tok \in {"xinhuashe"} -> 3
    [] tok \in {"guanfang"} \cup urgent_markers \cup {"zhenjing", "zuiniu"} -> 2
    [] tok \in Range(absurd_phrases) \cup {"renmin_ribao", "100%"} -> 4
    [] OTHER -> 1

RECURSIVE TextLen(_)
\* len(text)
TextLen(text) ==
  IF text = <<>> THEN 0 ELSE CharLen(Head(text)) + TextLen(Tail(text))

\* text.count(tok)
Count(text, tok) == Cardinality({i \in 1..Len(text) : text[i] = tok})

Flag(b) == IF b THEN 1 ELSE 0

\* Reliable with xinhuashe missing from its markers.
Reliable_WithoutXinhuashe(text) ==
  ContainsAny(text, reliable_markers \ {"xinhuashe"})

\* The condition of the `reliable` entry.
Reliable(text) == ContainsAny(text, reliable_markers)

extract_text_features(text) ==
  [length       |-> TextLen(text),
   sentences    |-> Count(text, "juhao") + 1,
   reliable     |-> Flag(Reliable(text)),
   is_absurd    |-> Flag(ContainsAny(text, Range(is_absurd_phrases))),
   urgent       |-> Flag(ContainsAny(text, urgent_markers)),
   exaggeration |-> Flag(ContainsAny(text, exaggeration_markers))]

\* [float(adv_features[key]) for key in sorted(adv_features)]
adv_vector(text) ==
  LET f == extract_text_features(text)
  IN  <<f.exaggeration, f.is_absurd, f.length, f.reliable, f.sentences, f.urgent>>

\* re.sub(r'[^一-龥a-zA-Z0-9]', ' ', text): the full stop and the
\* whitespace become a space, the other tokens are CJK or alphanumeric
\* ("100%" loses its percent sign, which leaves a space behind it).
RECURSIVE SubNonWord(_)
SubNonWord(text) ==
  IF text = <<>> THEN <<>>
  ELSE LET t == Head(text)
       IN  (CASE t \in {" ", "juhao"} -> <<" ">>
              [] t = "100%" -> <<"100", " ">>
              [] OTHER -> <<t>>) \o SubNonWord(Tail(text))

\* re.sub(r'\s+', ' ', text)
RECURSIVE Collapse(_)
Collapse(text) ==
  IF Len(text) < 2 THEN text
  ELSE IF text[1] = " " /\ text[2] = " " THEN Collapse(Tail(text))
  ELSE <<Head(text)>> \o Collapse(Tail(text))

\* " ".join(segments)
RECURSIVE Join(_)
Join(segs) ==
  IF Len(segs) < 2 THEN segs ELSE <<Head(segs), " ">> \o Join(Tail(segs))

\* jieba.cut yields every token, the spaces included, as a segment.
preprocess_text(text) ==
  IF text = <<>> THEN <<>> ELSE Join(Strip(Collapse(SubNonWord(text))))

\* The index in absurd_phrases of the first phrase the text contains, 0 if none.
FirstMatch(text) ==
  LET hits == {i \in 1..Len(absurd_phrases) : Contains(text, absurd_phrases[i])}
  IN  IF hits = {} THEN 0 ELSE CHOOSE i \in hits : \A j \in hits : i <= j

\* The detector reporting the phrase that comes first in the text.
absurd_content_detector_ByPosition(text) ==
  LET hits == {i \in 1..Len(text) : text[i] \in Range(absurd_phrases)}
  IN  IF hits = {} THEN <<FALSE, <<>>>>
      ELSE <<TRUE, <<"jiancedao_huangmiu_neirong",
                     text[CHOOSE i \in hits : \A j \in hits : i <= j]>>>>

absurd_content_detector(text) ==
  LET i == FirstMatch(text)
  IN  IF i = 0 THEN <<FALSE, <<>>>>
      ELSE <<TRUE, <<"jiancedao_huangmiu_neirong", absurd_phrases[i]>>>>

\* What models["tfidf"].transform does on one call: it raises, or returns a row
\* of n weights.
VecDims ==
  {expected_dim - Len(adv_vector(<<>>)) + k : k \in {-DimSlack, 0, DimSlack}}
VecOutcomes ==
  {[ok |-> FALSE, n |-> 0]} \cup {[ok |-> TRUE, n |-> k] : k \in VecDims}

Zeros(n) == [i \in 1..n |-> 0]

Take(s, n) == SubSeq(s, 1, IF Len(s) < n THEN Len(s) ELSE n)

generate_features(text, vec) ==
  IF vec.ok
    THEN Take([i \in 1..vec.n |-> 1] \o adv_vector(text), expected_dim)
    ELSE Zeros(expected_dim)

\* The condition of line 105.
HasAuthoritySource(text) == ContainsAny(text, authority_sources)

calculate_confidence(probabilities, text) ==
  LET real_prob == probabilities[1]
      fake_prob == probabilities[2]
  IN  IF HasAuthoritySource(text)
        THEN <<FracMin(FracMul(real_prob, BOOST), CEILING), fake_prob>>
        ELSE <<real_prob, fake_prob>>

\* total = real_prob + fake_prob; real_prob/total, fake_prob/total
Normalize(pair) ==
  LET total == FracAdd(pair[1], pair[2])
  IN  <<FracDiv(pair[1], total), FracDiv(pair[2], total)>>

\* Confidence with the two probabilities exchanged.
Confidence_Swapped(label, real, fake) == IF label = 1 THEN real ELSE fake

\* fake_prob if prediction == 1 else real_prob
Confidence(label, real, fake) == IF label = 1 THEN fake ELSE real

\* st.progress rejects a value outside [0.0, 1.0]; a not-a-number is outside.
ProgressRaises(value) == ~(FracLE(Zero, value) /\ FracLE(value, One))

ProbGrid == {Frac(k, GridN) : k \in 0..GridN}

\* ------------------------------------------------------------------- state
VARIABLES
  pc,             \* where the handler of the detect button stands
  news_text,      \* the content of the text area
  invoked,        \* the functions and collaborators called so far in this run
  is_absurd,      \* absurd_content_detector's flag
  reason,         \* absurd_content_detector's message
  processed_text, \* generate_features' processed_text
  features,       \* the vector generate_features returned
  prediction,     \* {} or {the label predict returned}
  probabilities,  \* <<>> or the pair predict_proba returned
  confidence,     \* <<>> or the pair calculate_confidence returned
  real_prob,      \* <<>> or real_prob after the division by total
  fake_prob,      \* <<>> or fake_prob after the division by total
  verdict,        \* {} or {the verdict shown}
  error,          \* <<>> or the message of the handler's except branch
  outcome,        \* how the run ended, "" while it runs
  last_result     \* {} or {st.session_state.last_result}

vars ==
  <<pc, news_text, invoked, is_absurd, reason, processed_text, features,
    prediction, probabilities, confidence, real_prob, fake_prob, verdict,
    error, outcome, last_result>>

\* st.session_state outlives the handler: a run starts in a fresh session or in
\* one that holds the result of an earlier detection.
EarlierResults ==
  {[text |-> <<"juhao">>, prediction |-> 0, confidence |-> One]}

Init ==
  /\ pc = "idle"
  /\ news_text = <<>>
  /\ invoked = {}
  /\ is_absurd = FALSE
  /\ reason = <<>>
  /\ processed_text = <<>>
  /\ features = <<>>
  /\ prediction = {}
  /\ probabilities = <<>>
  /\ confidence = <<>>
  /\ real_prob = <<>>
  /\ fake_prob = <<>>
  /\ verdict = {}
  /\ error = <<>>
  /\ outcome = ""
  /\ last_result \in {{}} \cup {{r} : r \in EarlierResults}

\* The handler without its except branch: the exception leaves the handler.
HandleException_Propagates(e) ==
  /\ error' = error
  /\ outcome' = "Uncaught"
  /\ pc' = "done"

\* except Exception as e: st.error(f"分析失败: {str(e)}")
HandleException(e) ==
  /\ error' = <<"fenxi_shibai", e>>
  /\ outcome' = "InferenceError"
  /\ pc' = "done"

\* if st.button("检测真实性"): if not news_text.strip(): st.warning(...); return
Click ==
  /\ pc = "idle"
  /\ \E text \in Texts :
       /\ news_text' = text
       /\ IF Strip(text) = <<>>
            THEN /\ outcome' = "EmptyInputError"
                 /\ pc' = "done"
            ELSE /\ outcome' = outcome
                 /\ pc' = "gate"
  /\ UNCHANGED <<invoked, is_absurd, reason, processed_text, features,
                 prediction, probabilities, confidence, real_prob, fake_prob,
                 verdict, error, last_result>>

\* Step 1: absurd_content_detector, and the verdict it short-circuits to.
Gate ==
  /\ pc = "gate"
  /\ LET r == absurd_content_detector(news_text)
     IN  /\ is_absurd' = r[1]
         /\ reason' = r[2]
         /\ IF r[1]
              THEN /\ verdict' = {[kind |-> "Fake", confidence |-> One,
                                   reason |-> r[2]]}
                   /\ outcome' = "FakeVerdict"
                   /\ pc' = "done"
              ELSE /\ verdict' = verdict
                   /\ outcome' = outcome
                   /\ pc' = "features"
  /\ invoked' = invoked \cup {"absurd_content_detector"}
  /\ UNCHANGED <<news_text, processed_text, features, prediction,
                 probabilities, confidence, real_prob, fake_prob, error,
                 last_result>>

\* Step 2: features = generate_features(news_text, models)
GenerateFeatures ==
  /\ pc = "features"
  /\ processed_text' = preprocess_text(news_text)
  /\ \E vec \in VecOutcomes :
       /\ features' = generate_features(news_text, vec)
       /\ invoked' = invoked \cup
            {"generate_features", "preprocess_text", "transform"} \cup
            (IF vec.ok THEN {"extract_text_features"} ELSE {"transform_raised"})
  /\ pc' = "predict"
  /\ UNCHANGED <<news_text, is_absurd, reason, prediction, probabilities,
                 confidence, real_prob, fake_prob, verdict, error, outcome,
                 last_result>>

\* prediction = models["classifier"].predict(features)[0]
Predict ==
  /\ pc = "predict"
  /\ invoked' = invoked \cup {"predict"}
  /\ \/ /\ HandleException("predict")
        /\ prediction' = prediction
     \/ /\ \E label \in {0, 1} : prediction' = {label}
        /\ pc' = "predict_proba"
        /\ UNCHANGED <<error, outcome>>
  /\ UNCHANGED <<news_text, is_absurd, reason, processed_text, features,
                 probabilities, confidence, real_prob, fake_prob, verdict,
                 last_result>>

\* probabilities = models["classifier"].predict_proba(features)[0]
PredictProba ==
  /\ pc = "predict_proba"
  /\ invoked' = invoked \cup {"predict_proba"}
  /\ \/ /\ HandleException("predict_proba")
        /\ probabilities' = probabilities
     \/ /\ \E p0 \in ProbGrid, p1 \in ProbGrid : probabilities' = <<p0, p1>>
        /\ pc' = "calibrate"
        /\ UNCHANGED <<error, outcome>>
  /\ UNCHANGED <<news_text, is_absurd, reason, processed_text, features,
                 prediction, confidence, real_prob, fake_prob, verdict,
                 last_result>>

\* real_prob, fake_prob = calculate_confidence(probabilities, news_text), then
\* the division of both by their sum.
Calibrate ==
  /\ pc = "calibrate"
  /\ invoked' = invoked \cup {"calculate_confidence"}
  /\ LET c == calculate_confidence(probabilities, news_text)
         n == Normalize(c)
     IN  /\ confidence' = c
         /\ real_prob' = n[1]
         /\ fake_prob' = n[2]
  /\ pc' = "display"
  /\ UNCHANGED <<news_text, is_absurd, reason, processed_text, features,
                 prediction, probabilities, verdict, error, outcome,
                 last_result>>

\* Step 3: the verdict and its progress bar.
Display ==
  /\ pc = "display"
  /\ \E label \in prediction :
       LET conf == Confidence(label, real_prob, fake_prob)
       IN  /\ verdict' = {[kind |-> IF label = 1 THEN "Fake" ELSE "Real",
                           confidence |-> conf, reason |-> <<>>]}
           /\ IF ProgressRaises(conf)
                THEN HandleException("progress")
                ELSE /\ pc' = "report"
                     /\ UNCHANGED <<error, outcome>>
  /\ UNCHANGED <<news_text, invoked, is_absurd, reason, processed_text,
                 features, prediction, probabilities, confidence, real_prob,
                 fake_prob, last_result>>

\* Step 4: the report, which rebinds `features`, and st.session_state.last_result.
Report ==
  /\ pc = "report"
  /\ invoked' = invoked \cup {"extract_text_features"}
  /\ features' = <<>>
  /\ \E label \in prediction :
       /\ last_result' = {[text |-> news_text, prediction |-> label,
                           confidence |-> Confidence(label, real_prob, fake_prob)]}
       /\ outcome' = IF label = 1 THEN "FakeVerdict" ELSE "RealVerdict"
  /\ pc' = "done"
  /\ UNCHANGED <<news_text, is_absurd, reason, processed_text, prediction,
                 probabilities, confidence, real_prob, fake_prob, verdict,
                 error>>

Next ==
  \/ Click
  \/ Gate
  \/ GenerateFeatures
  \/ Predict
  \/ PredictProba
  \/ Calibrate
  \/ Display
  \/ Report

Spec == Init /\ [][Next]_vars

\* ------------------------------------------------------------------ claims
\* A text that is empty or holds whitespace only.
Blank(text) == \A i \in 1..Len(text) : text[i] = " "

\* absurd_phrases[i] occurs in the text and no phrase before it in the list does.
FirstInListOrder(text, i) ==
  /\ i \in 1..Len(absurd_phrases)
  /\ Contains(text, absurd_phrases[i])
  /\ \A j \in 1..(i - 1) : ~Contains(text, absurd_phrases[j])

HasGatePhrase(text) == \E i \in 1..Len(absurd_phrases) : FirstInListOrder(text, i)

External == {"transform", "predict", "predict_proba"}
Verdicts == {"FakeVerdict", "RealVerdict"}

\* C1: a run on a non-blank text that contains a phrase of the gate's list ends
\* in a Fake verdict with confidence exactly 1.0 whose reason names the first
\* contained phrase in list order, and at no point of the run is the vectorizer
\* or the classifier invoked.
C1_GateShortCircuits ==
  (pc # "idle" /\ ~Blank(news_text) /\ HasGatePhrase(news_text)) =>
    /\ invoked \cap External = {}
    /\ pc \in {"gate", "done"}
    /\ pc = "done" =>
         /\ outcome = "FakeVerdict"
         /\ \E i \in 1..Len(absurd_phrases) :
              /\ FirstInListOrder(news_text, i)
              /\ verdict = {[kind |-> "Fake", confidence |-> One,
                             reason |-> <<"jiancedao_huangmiu_neirong",
                                          absurd_phrases[i]>>]}

\* The gate has answered on a text whose first phrase by position is not its
\* first phrase in list order.
C1_Witness ==
  /\ pc = "done"
  /\ outcome = "FakeVerdict"
  /\ news_text = <<"taiyang_xiaoshi", "yueqiu_baozha">>

\* C2: a run on an empty or whitespace-only text ends in EmptyInputError with
\* nothing invoked and no verdict, and it leaves last_result as it was.
C2_EmptyInput ==
  /\ []((pc # "idle" /\ Blank(news_text)) =>
          /\ pc = "done"
          /\ outcome = "EmptyInputError"
          /\ invoked = {}
          /\ verdict = {}
          /\ error = <<>>)
  /\ [][Blank(news_text') => last_result' = last_result]_vars

C2_Witness ==
  /\ pc = "done"
  /\ outcome = "EmptyInputError"
  /\ news_text = <<" ", " ">>
  /\ last_result # {}

\* C3: the vector generate_features returns has exactly expected_dim entries,
\* whatever the length of the vectorizer's row.
C3_AssemblerLength ==
  pc \in {"predict", "predict_proba", "calibrate", "display", "report"} =>
    Len(features) = expected_dim

\* C4: when transform raises, generate_features returns expected_dim zeros,
\* the classifier is invoked on them, and the run ends in a Fake or Real
\* verdict whenever both classifier calls return.
C4_VectorizerDegrade ==
  "transform_raised" \in invoked =>
    /\ pc \in {"predict", "predict_proba", "calibrate", "display"} =>
         features = Zeros(expected_dim)
    /\ (pc = "done" /\ probabilities # <<>>) =>
         /\ {"predict", "predict_proba"} \subseteq invoked
         /\ outcome \in Verdicts

InUnit(a) == FracLE(Zero, a) /\ FracLE(a, One)

\* C5: the pair the calibration step produces sums to 1.0 and has both
\* components in [0, 1], for every classifier pair, (0, 0) included.
C5_CalibratedPair ==
  real_prob # <<>> =>
    /\ FracEq(FracAdd(real_prob, fake_prob), One)
    /\ InUnit(real_prob)
    /\ InUnit(fake_prob)

\* The classifier answered like a probabilistic classifier: the pair sums to 1
\* and the label is the class of the larger probability.
WellFormedAnswer ==
  /\ probabilities # <<>>
  /\ FracEq(FracAdd(probabilities[1], probabilities[2]), One)
  /\ \A l \in prediction : l = 1 <=> FracLT(probabilities[1], probabilities[2])

\* C6: on a text with an authority-source marker, realProbability is never
\* below the classifier's p0 and never above 0.97, both as calculate_confidence
\* returns it and after the division by the sum.  Stated for the classifier
\* pairs that sum to 1, which keeps the division by a zero sum out of it.
C6_BoostMonotoneCapped ==
  (/\ real_prob # <<>>
   /\ WellFormedAnswer
   /\ ContainsAny(news_text, {"xinhuashe", "renmin_ribao"})) =>
    /\ FracLE(probabilities[1], confidence[1])
    /\ FracLE(confidence[1], CEILING)
    /\ FracLE(probabilities[1], real_prob)
    /\ FracLE(real_prob, CEILING)

\* C7 as stated: calculate_confidence changes realProbability exactly on the
\* texts whose `reliable` signal is 1.0.  Stated for a p0 above 0, which a
\* boost does change.
C7_BoostIffReliable ==
  (confidence # <<>> /\ FracLT(Zero, probabilities[1])) =>
    (~FracEq(confidence[1], probabilities[1])
       <=> extract_text_features(news_text).reliable = 1)

\* C7 amended: calculate_confidence replaces realProbability by
\* min(1.7 * p0, 0.97) exactly on the texts that contain xinhuashe or
\* renmin_ribao and returns it unchanged on every other text; every text it
\* boosts has reliable = 1.0 (the converse fails: guanfang alone sets reliable
\* and is not boosted, and a p0 of 0 is boosted to 0).
C7_BoostImpliesReliable ==
  confidence # <<>> =>
    LET p0 == probabilities[1]
        boosted == FracMin(Frac(17 * p0[1], 10 * p0[2]), Frac(97, 100))
    IN  /\ confidence[2] = probabilities[2]
        /\ IF ContainsAny(news_text, {"xinhuashe", "renmin_ribao"})
             THEN /\ confidence[1] = boosted
                  /\ extract_text_features(news_text).reliable = 1
             ELSE confidence[1] = p0

\* A boost that changed the classifier's p0.
C7_Witness ==
  /\ confidence # <<>>
  /\ Contains(news_text, "renmin_ribao")
  /\ FracLT(probabilities[1], confidence[1])

FracMax(a, b) == IF FracLT(a, b) THEN b ELSE a

\* C8 as stated: the verdict is Fake for label 1 and Real otherwise, and the
\* confidence shown and stored is the higher of the two calibrated
\* probabilities.  Stated for the runs on which the classifier's pair sums to 1
\* and its label is the class of the larger probability.
C8_HigherProbability ==
  \A l \in prediction : \A v \in verdict :
    WellFormedAnswer =>
    /\ v.kind = (IF l = 1 THEN "Fake" ELSE "Real")
    /\ FracEq(v.confidence, FracMax(real_prob, fake_prob))
    /\ (pc = "done" /\ outcome \in Verdicts) =>
         \E r \in last_result :
           FracEq(r.confidence, FracMax(real_prob, fake_prob))

\* C8 amended: on every run that reaches the classifier and shows a verdict,
\* the verdict is Fake for label 1 and Real otherwise, and the confidence it
\* shows (and, when the run completes, stores in last_result with the text and
\* the label) is the calibrated probability of the predicted class:
\* fakeProbability for label 1, realProbability otherwise.
C8_PredictedClassProbability ==
  \A l \in prediction : \A v \in verdict :
    LET conf == IF l = 1 THEN fake_prob ELSE real_prob
    IN  /\ v.kind = (IF l = 1 THEN "Fake" ELSE "Real")
        /\ v.confidence = conf
        /\ v.reason = <<>>
        /\ (pc = "done" /\ outcome \in Verdicts) =>
             /\ outcome = (IF l = 1 THEN "FakeVerdict" ELSE "RealVerdict")
             /\ last_result =
                  {[text |-> news_text, prediction |-> l, confidence |-> conf]}

\* A stored Fake verdict whose confidence is the lower calibrated probability.
C8_Witness ==
  /\ pc = "done"
  /\ outcome = "FakeVerdict"
  /\ prediction = {1}
  /\ WellFormedAnswer
  /\ \E r \in last_result : r.text = news_text /\ FracLT(r.confidence, real_prob)

\* predict or predict_proba was called and returned nothing: it raised.
ClassifierRaised ==
  \/ "predict" \in invoked /\ prediction = {}
  \/ "predict_proba" \in invoked /\ probabilities = <<>>

\* C9: when predict or predict_proba raises, the run ends in InferenceError
\* with a diagnostic message, shows no verdict and does not update
\* last_result; and every run that ended is in exactly one of the four
\* terminal states.
C9_InferenceError ==
  /\ [](ClassifierRaised =>
          /\ pc = "done"
          /\ outcome = "InferenceError"
          /\ error # <<>>
          /\ verdict = {})
  /\ [](pc = "done" =>
          outcome \in {"FakeVerdict", "RealVerdict", "EmptyInputError",
                       "InferenceError"})
  /\ [](pc # "done" => outcome = "")
  /\ [][ClassifierRaised' => last_result' = last_result]_vars

C9_Witness ==
  /\ pc = "done"
  /\ "predict_proba" \in invoked
  /\ probabilities = <<>>
  /\ outcome = "InferenceError"
  /\ last_result # {}

\* C10: absurd_content_detector reports a match exactly on the texts whose
\* is_absurd signal is 1.0; so a run that reaches the classifier has
\* is_absurd = 0.0 and a run the gate short-circuits has is_absurd = 1.0.
C10_GateAgreesWithSignal ==
  "absurd_content_detector" \in invoked =>
    /\ is_absurd <=> extract_text_features(news_text).is_absurd = 1
    /\ "predict" \in invoked => extract_text_features(news_text).is_absurd = 0
    /\ (pc = "done" /\ is_absurd) => extract_text_features(news_text).is_absurd = 1

====
